---- MODULE Spec2Model ----
(***************************************************************************)
(* Model of micrograd/nn.py: Neuron, Layer, RegisterConjoinLayer, MLP and  *)
(* ArchitecturalModel, over a store of scalar Values (data, grad).         *)
(*                                                                         *)
(* Python objects are modelled by reference where the code relies on it:   *)
(* a Value is an id into `vals`, a dict is an entry of `heap`.             *)
(* A Python value that flows through a forward pass is one of              *)
(*   None, a scalar Value, or a list of scalars,                           *)
(* written as a tagged record so that the three can be compared.           *)
(* A number is a dyadic rational n / 2^e in lowest terms, as a float is;   *)
(* products and sums of the values drawn here are exact.                   *)
(***************************************************************************)
EXTENDS Integers, Sequences, FiniteSets, TLC

VARIABLES pc, err, vals, x, i, result, neuron, self_layers, heap, local_registers,
          written, nin, registers, architecture, register_sizes, constructed,
          module, lastOp

\* pc              position of the running constructor or call
\* err             the exception raised, NoError if none
\* vals            the Value objects by id: [data, grad]
\* x               the argument of the running call (MLP: its local x)
\* i               loop position (SpecGrad: accumulations so far)
\* result          the value the call returned
\* neuron          the Neuron under call in SpecNeuron
\* self_layers     self.layers of the MLP or ArchitecturalModel
\* heap            dict objects by reference; "self" is self.registers
\* local_registers the reference held by the local `registers` of __call__
\* written         (rout, value) of each step the last evaluation completed
\* nin             the constructor argument nin
\* registers       the constructor argument `registers`
\* architecture    the constructor argument `architecture`
\* register_sizes  the local dict register_sizes of __init__
\* constructed     number of Layer objects __init__ has constructed
\* module          the module whose gradients SpecGrad resets
\* lastOp          the operation that produced the current state
vars == <<pc, err, vals, x, i, result, neuron, self_layers, heap, local_registers,
          written, nin, registers, architecture, register_sizes, constructed,
          module, lastOp>>

(***************************************************************************)
(* Bounds                                                                  *)
(***************************************************************************)
MaxNin == 2          \* largest width drawn in SpecNeuron and SpecMLP
MaxDepth == 2        \* largest number of layers of an MLP drawn in SpecMLP
MaxArchLen == 3      \* largest number of steps of an architecture in SpecArch
MaxAccum == 3        \* largest number of gradient accumulations in SpecGrad
RandomBits == 2      \* bits of the fraction random.random() returns (53 in CPython)

(***************************************************************************)
(* Numbers                                                                 *)
(***************************************************************************)
\* n / 2^e in lowest terms
RECURSIVE Dyadic(_, _)
Dyadic(n, e) ==
    IF e > 0 /\ n % 2 = 0 THEN Dyadic(n \div 2, e - 1) ELSE [n |-> n, e |-> e]

Int2Num(k) == Dyadic(k, 0)

RECURSIVE Pow2(_)
Pow2(e) == IF e = 0 THEN 1 ELSE 2 * Pow2(e - 1)

Max(a, b) == IF a < b THEN b ELSE a
Min(a, b) == IF a < b THEN a ELSE b

\* a + b and a * b on numbers
NumAdd(a, b) ==
    LET m == Max(a.e, b.e)
    IN Dyadic(a.n * Pow2(m - a.e) + b.n * Pow2(m - b.e), m)
NumMul(a, b) == Dyadic(a.n * b.n, a.e + b.e)

\* -a
NumNeg(a) == Dyadic(-a.n, a.e)

\* the input scalars a caller passes
InputScalars == {Int2Num(1), Int2Num(2)}

(***************************************************************************)
(* Python values                                                           *)
(***************************************************************************)
None == [tag |-> "None", s |-> Int2Num(0), l |-> <<>>]
Scalar(n) == [tag |-> "Value", s |-> n, l |-> <<>>]
List(seq) == [tag |-> "list", s |-> Int2Num(0), l |-> seq]

Returned(v) == [ok |-> TRUE, val |-> v, err |-> "none"]
Raised(e) == [ok |-> FALSE, val |-> None, err |-> e]

\* an exception as the caller sees it; NoError when nothing was raised
Error(type, register, got, expected) ==
    [type |-> type, register |-> register, got |-> got, expected |-> expected]
Exception(type) == Error(type, "", 0, 0)
NoError == Exception("none")

\* sum(seq, start)
RECURSIVE SeqSum(_, _)
SeqSum(seq, start) ==
    IF seq = <<>> THEN start ELSE SeqSum(Tail(seq), NumAdd(start, Head(seq)))

RECURSIVE Flatten(_)
Flatten(seqs) == IF seqs = <<>> THEN <<>> ELSE Head(seqs) \o Flatten(Tail(seqs))

Range(seq) == {seq[k] : k \in DOMAIN seq}

SeqsUpTo(S, n) == UNION {[1..k -> S] : k \in 0..n}

(***************************************************************************)
(* engine.Value (micrograd/engine.py, not part of nn.py)                   *)
(***************************************************************************)
\* Value(data): a fresh scalar with grad 0
Value(data) == [data |-> data, grad |-> 0]

\* Value.relu()
relu(n) == IF n.n < 0 THEN Int2Num(0) ELSE n

\* a + b as ArchitecturalModel.__call__ uses it on two register contents:
\* list + list concatenates, Value + Value adds, anything else is a TypeError
PyAdd(a, b) ==
    IF a.tag = "list" /\ b.tag = "list" THEN Returned(List(a.l \o b.l))
    ELSE IF a.tag = "Value" /\ b.tag = "Value" THEN Returned(Scalar(NumAdd(a.s, b.s)))
    ELSE Raised("TypeError")

\* random.random(): a float k / 2^53 of [0, 1).  The model keeps the first
\* RandomBits bits of the fraction: k / 2^RandomBits, k from 0 to
\* 2^RandomBits - 1, every one of them a value the generator returns.
random == {Dyadic(k, RandomBits) : k \in 0..(Pow2(RandomBits) - 1)}

\* random.uniform(a, b) = a + (b - a) * random(): the values one draw can
\* return.  Each weight is drawn on its own.
uniform(a, b) == {NumAdd(a, NumMul(NumAdd(b, NumNeg(a)), r)) : r \in random}

(***************************************************************************)
(* Neuron                                                                  *)
(***************************************************************************)
\* Neuron.__init__: nin weights and one bias, allocated at ids base..base+nin
Neuron_init(base, n_in, nonlin) ==
    [w |-> [k \in 1..n_in |-> base + k - 1], b |-> base + n_in, nonlin |-> nonlin]

\* Neuron.parameters
Neuron_parameters(n) == n.w \o <<n.b>>

\* number of Values a Neuron of input width n_in allocates
NeuronSize(n_in) == n_in + 1

\* Neuron.__call__: zip pairs weights and inputs up to the shorter of the two
Neuron_call(n, xv, vs) ==
    IF xv.tag # "list" THEN Raised("TypeError")
    ELSE LET m == Min(Len(n.w), Len(xv.l))
             act == SeqSum([k \in 1..m |-> NumMul(vs[n.w[k]].data, xv.l[k])],
                           vs[n.b].data)
         IN Returned(Scalar(IF n.nonlin THEN relu(act) ELSE act))

(***************************************************************************)
(* Layer                                                                   *)
(***************************************************************************)
\* Layer.__init__: nout neurons of input width nin
Layer_init(base, n_in, n_out, nonlin) ==
    [neurons |-> [j \in 1..n_out |->
        Neuron_init(base + (j - 1) * NeuronSize(n_in), n_in, nonlin)]]

\* RegisterConjoinLayer.__init__: neurons of input width nin1 + nin2
RegisterConjoinLayer_init(base, nin1, nin2, n_out, nonlin) ==
    [neurons |-> [j \in 1..n_out |->
        Neuron_init(base + (j - 1) * NeuronSize(nin1 + nin2), nin1 + nin2, nonlin)]]

\* Layer.parameters
Layer_parameters(layer) ==
    Flatten([j \in 1..Len(layer.neurons) |-> Neuron_parameters(layer.neurons[j])])

\* Layer.__call__: every neuron on x; a single output is unwrapped
Layer_call(layer, xv, vs) ==
    LET out == [j \in 1..Len(layer.neurons) |-> Neuron_call(layer.neurons[j], xv, vs)]
    IN IF \E j \in DOMAIN out : ~out[j].ok THEN Raised("TypeError")
       ELSE IF Len(out) = 1 THEN Returned(out[1].val)
       ELSE Returned(List([j \in 1..Len(out) |-> out[j].val.s]))

\* input width a layer was constructed with (0 when it has no neuron)
LayerNin(layer) == IF layer.neurons = <<>> THEN 0 ELSE Len(layer.neurons[1].w)

\* number of Values a Layer(nin, nout) allocates
LayerSize(n_in, n_out) == n_out * NeuronSize(n_in)

(***************************************************************************)
(* The Values the constructors create                                      *)
(***************************************************************************)
\* ids of the biases and of the weights among the neurons `ns`
BiasIds(ns) == {n.b : n \in ns}
WeightIds(ns) == UNION {Range(n.w) : n \in ns}

\* self.w = [Value(random.uniform(-1,1)) ...], self.b = Value(0): the stores
\* the constructors of the neurons `ns` can leave, one per outcome of the
\* draws
NeuronVals(ns) ==
    {[id \in WeightIds(ns) \cup BiasIds(ns) |->
        IF id \in BiasIds(ns) THEN Value(Int2Num(0)) ELSE Value(draw[id])] :
     draw \in [WeightIds(ns) -> uniform(Int2Num(-1), Int2Num(1))]}

NeuronsOfLayers(layers) == UNION {Range(layers[k].neurons) : k \in DOMAIN layers}

Idle == "idle"

(***************************************************************************)
(* SpecNeuron: one Neuron called on one input list                         *)
(***************************************************************************)
NeuronInit ==
    /\ \E n_in \in 0..MaxNin, nl \in BOOLEAN :
          /\ neuron = Neuron_init(0, n_in, nl)
          /\ vals \in NeuronVals({Neuron_init(0, n_in, nl)})
    /\ x \in {List(s) : s \in SeqsUpTo(InputScalars, MaxNin + 1)}
    /\ pc = "ready"
    /\ err = NoError
    /\ result = None
    /\ i = 0
    /\ self_layers = <<>>
    /\ heap = <<>>
    /\ local_registers = Idle
    /\ written = <<>>
    /\ nin = 0
    /\ registers = <<>>
    /\ architecture = <<>>
    /\ register_sizes = <<>>
    /\ constructed = 0
    /\ module = Idle
    /\ lastOp = Idle

\* n(x)
NeuronCall ==
    /\ pc = "ready"
    /\ LET r == Neuron_call(neuron, x, vals)
       IN /\ pc' = IF r.ok THEN "returned" ELSE "raised"
          /\ result' = r.val
          /\ err' = Exception(r.err)
    /\ UNCHANGED <<vals, x, i, neuron, self_layers, heap, local_registers, written,
                   nin, registers, architecture, register_sizes, constructed,
                   module, lastOp>>

NeuronNext == NeuronCall

SpecNeuron == NeuronInit /\ [][NeuronNext]_vars

\* C7: a Neuron called with an input whose length differs from its weight
\* count raises; it never returns a value from a truncated dot product
C7_MismatchRaises ==
    (pc # "ready" /\ Len(x.l) # Len(neuron.w)) => pc = "raised"

(***************************************************************************)
(* MLP                                                                     *)
(***************************************************************************)
\* sz = [nin] + nouts
MLP_sz(n_in, nouts) == <<n_in>> \o nouts

\* id of the first Value of layer k (1-based) of MLP(nin, nouts)
RECURSIVE MLP_base(_, _, _)
MLP_base(n_in, nouts, k) ==
    IF k = 1 THEN 0
    ELSE MLP_base(n_in, nouts, k - 1)
         + LayerSize(MLP_sz(n_in, nouts)[k - 1], MLP_sz(n_in, nouts)[k])

\* MLP.__init__: Layer(sz[i], sz[i+1], nonlin = i != len(nouts)-1), i from 0
MLP_init(n_in, nouts) ==
    [k \in 1..Len(nouts) |->
        Layer_init(MLP_base(n_in, nouts, k), MLP_sz(n_in, nouts)[k],
                   MLP_sz(n_in, nouts)[k + 1], k # Len(nouts))]

\* MLP.parameters
MLP_parameters(layers) ==
    Flatten([k \in 1..Len(layers) |-> Layer_parameters(layers[k])])

(***************************************************************************)
(* SpecMLP: MLP(nin, nouts) constructed, then called on a length-nin list  *)
(***************************************************************************)
MLPInit ==
    /\ nin \in 1..MaxNin
    /\ \E nouts \in SeqsUpTo(1..MaxNin, MaxDepth) :
          /\ self_layers = MLP_init(nin, nouts)
          /\ vals \in NeuronVals(NeuronsOfLayers(MLP_init(nin, nouts)))
    /\ x \in {List(s) : s \in [1..nin -> InputScalars]}
    /\ pc = "loop"
    /\ i = 1
    /\ err = NoError
    /\ result = None
    /\ neuron = Idle
    /\ heap = <<>>
    /\ local_registers = Idle
    /\ written = <<>>
    /\ registers = <<>>
    /\ architecture = <<>>
    /\ register_sizes = <<>>
    /\ constructed = 0
    /\ module = Idle
    /\ lastOp = Idle

\* one iteration of `for layer in self.layers: x = layer(x)`
MLPLayerStep ==
    /\ pc = "loop"
    /\ i <= Len(self_layers)
    /\ LET r == Layer_call(self_layers[i], x, vals)
       IN IF r.ok
          THEN /\ x' = r.val
               /\ i' = i + 1
               /\ UNCHANGED <<pc, err>>
          ELSE /\ pc' = "raised"
               /\ err' = Exception(r.err)
               /\ UNCHANGED <<x, i>>
    /\ UNCHANGED <<vals, result, neuron, self_layers, heap, local_registers, written,
                   nin, registers, architecture, register_sizes, constructed,
                   module, lastOp>>

\* `return x`
MLPReturn ==
    /\ pc = "loop"
    /\ i > Len(self_layers)
    /\ pc' = "returned"
    /\ result' = x
    /\ UNCHANGED <<err, vals, x, i, neuron, self_layers, heap, local_registers,
                   written, nin, registers, architecture, register_sizes,
                   constructed, module, lastOp>>

MLPNext == MLPLayerStep \/ MLPReturn

SpecMLP == MLPInit /\ [][MLPNext]_vars

\* every layer of the MLP has at least one unit
AllWidthsPositive == \A k \in DOMAIN self_layers : Len(self_layers[k].neurons) >= 1

\* C6: an MLP whose widths are all at least 1 never raises on a length-nin
\* input, and the value handed to layer i+1 is a sequence as long as layer i
\* has units, which is the input width layer i+1 was constructed with
C6_MLPThreadsSequences ==
    AllWidthsPositive =>
        /\ pc # "raised"
        /\ (pc = "loop" /\ i > 1 /\ i <= Len(self_layers)) =>
              /\ x.tag = "list"
              /\ Len(x.l) = Len(self_layers[i - 1].neurons)
              /\ Len(x.l) = LayerNin(self_layers[i])

(***************************************************************************)
(* ArchitecturalModel.__init__                                             *)
(***************************************************************************)
\* an input spec: a single register name, or a list of register names
Single(r) == [isList |-> FALSE, names |-> <<r>>]
Listed(rs) == [isList |-> TRUE, names |-> rs]

\* one element (rin, nn, rout, kwa) of the architecture; kwa = {} is
\* nonlin = TRUE, the default of Neuron.__init__
ArchStep(rin, nn, rout, nonlin) == [rin |-> rin, nn |-> nn, rout |-> rout, nonlin |-> nonlin]

\* self.registers = {"I": None, "O": None}, updated with the declared names
ArchitecturalModel_registers(declared) ==
    [r \in {"I", "O"} \cup Range(declared) |-> None]

\* d[k] = v on a Python dict
DictSet(d, k, v) == [r \in DOMAIN d \cup {k} |-> IF r = k THEN v ELSE d[r]]

\* the register_sizes loop: the first declaration of an output register sets
\* its width, a later one with another width raises ValueError
RECURSIVE register_sizes_loop(_, _, _)
register_sizes_loop(sizes, arch, k) ==
    IF k > Len(arch) THEN [ok |-> TRUE, sizes |-> sizes, err |-> NoError]
    ELSE LET st == arch[k]
         IN IF st.rout \notin DOMAIN sizes
            THEN register_sizes_loop(DictSet(sizes, st.rout, st.nn), arch, k + 1)
            ELSE IF sizes[st.rout] # st.nn
            THEN [ok |-> FALSE, sizes |-> sizes,
                  err |-> Error("ValueError: register input mismatch",
                                st.rout, st.nn, sizes[st.rout])]
            ELSE register_sizes_loop(sizes, arch, k + 1)

\* the loop with the width comparison dropped: a later declaration overwrites
RECURSIVE register_sizes_overwrite(_, _, _)
register_sizes_overwrite(sizes, arch, k) ==
    IF k > Len(arch) THEN [ok |-> TRUE, sizes |-> sizes, err |-> NoError]
    ELSE register_sizes_overwrite(DictSet(sizes, arch[k].rout, arch[k].nn), arch, k + 1)

Mutant_register_sizes(n_in, arch) ==
    register_sizes_overwrite([r \in {"I"} |-> n_in], arch, 1)

\* register_sizes = {"I": nin}, then the loop over the architecture
ArchitecturalModel_register_sizes(n_in, arch) ==
    register_sizes_loop([r \in {"I"} |-> n_in], arch, 1)

\* one iteration of the loop that fills self.layers.  Every path ends in an
\* exception: a list input appends the bare RegisterConjoinLayer and then
\* indexes register_sizes with the list (unhashable); a single input builds
\* the Layer and then calls list.append with three arguments.  The Values
\* of a layer constructed on the way are out of reach once __init__ has
\* raised, and `vals` does not keep them.
ArchitecturalModel_layer_step(sizes, st, layers, built) ==
    IF st.rin.isList
    THEN IF Len(st.rin.names) # 2
         THEN [ok |-> FALSE, layers |-> layers, constructed |-> built,
               err |-> Exception("ValueError: input registers")]
         ELSE IF \E r \in Range(st.rin.names) : r \notin DOMAIN sizes
         THEN [ok |-> FALSE, layers |-> layers, constructed |-> built,
               err |-> Exception("KeyError")]
         ELSE [ok |-> FALSE,
               layers |-> Append(layers,
                    RegisterConjoinLayer_init(0, sizes[st.rin.names[1]],
                        sizes[st.rin.names[2]], sizes[st.rout], st.nonlin)),
               constructed |-> built + 1,
               err |-> Exception("TypeError: unhashable type: 'list'")]
    ELSE IF st.rin.names[1] \notin DOMAIN sizes
         THEN [ok |-> FALSE, layers |-> layers, constructed |-> built,
               err |-> Exception("KeyError")]
         ELSE [ok |-> FALSE, layers |-> layers, constructed |-> built + 1,
               err |-> Exception("TypeError: append() takes exactly one argument")]

\* self.layers = [] and the loop over the architecture
RECURSIVE ArchitecturalModel_layers(_, _, _, _, _)
ArchitecturalModel_layers(sizes, arch, k, layers, built) ==
    IF k > Len(arch)
    THEN [ok |-> TRUE, layers |-> layers, constructed |-> built, err |-> NoError]
    ELSE LET r == ArchitecturalModel_layer_step(sizes, arch[k], layers, built)
         IN IF r.ok
            THEN ArchitecturalModel_layers(sizes, arch, k + 1, r.layers, r.constructed)
            ELSE r

(***************************************************************************)
(* ArchitecturalModel.__call__                                             *)
(***************************************************************************)
\* no copy: the caller keeps working on the dict at `ref` itself
Mutant_copy_alias(h, ref) == [ref |-> ref, heap |-> h]

\* copy.copy(d) of the dict at `ref`: a new dict object with the same items
copy_copy(h, ref) ==
    [ref |-> "copy",
     heap |-> [r \in DOMAIN h \cup {"copy"} |-> IF r = "copy" THEN h[ref] ELSE h[r]]]

\* registers[name]
DictGet(d, k) == IF k \in DOMAIN d THEN Returned(d[k]) ELSE Raised("KeyError")

\* the input of a step: registers[rin[0]] + registers[rin[1]] for a list,
\* registers[rin] otherwise
ArchitecturalModel_input(regs, rin) ==
    IF rin.isList
    THEN LET a == DictGet(regs, rin.names[1])
             b == DictGet(regs, rin.names[2])
         IN IF ~a.ok THEN a ELSE IF ~b.ok THEN b ELSE PyAdd(a.val, b.val)
    ELSE DictGet(regs, rin.names[1])

\* one iteration of the loop over self.layers: registers[rout] = layer(input)
ArchitecturalModel_step(regs, st, vs) ==
    LET input == ArchitecturalModel_input(regs, st.rin)
        out == Layer_call(st.layer, input.val, vs)
    IN IF ~input.ok THEN [ok |-> FALSE, regs |-> regs, val |-> None, err |-> input.err]
       ELSE IF ~out.ok THEN [ok |-> FALSE, regs |-> regs, val |-> None, err |-> out.err]
       ELSE [ok |-> TRUE, regs |-> DictSet(regs, st.rout, out.val), val |-> out.val,
             err |-> "none"]

\* `for rin, layer, rout in self.layers` from position k on; `done` lists
\* the (rout, value) of the steps completed so far
RECURSIVE ArchitecturalModel_loop(_, _, _, _, _)
ArchitecturalModel_loop(regs, layers, k, done, vs) ==
    IF k > Len(layers)
    THEN [ok |-> TRUE, regs |-> regs, written |-> done, err |-> "none"]
    ELSE LET r == ArchitecturalModel_step(regs, layers[k], vs)
         IN IF r.ok
            THEN ArchitecturalModel_loop(r.regs, layers, k + 1,
                    Append(done, [rout |-> layers[k].rout, val |-> r.val]), vs)
            ELSE [ok |-> FALSE, regs |-> regs, written |-> done, err |-> r.err]

\* return registers["O"]
ArchitecturalModel_return(regs) == regs["O"]

\* ArchitecturalModel.parameters
ArchitecturalModel_parameters(layers) ==
    Flatten([k \in 1..Len(layers) |-> Layer_parameters(layers[k].layer)])

(***************************************************************************)
(* SpecArch: ArchitecturalModel(nin, registers, architecture) and, once    *)
(* the constructor has returned, any number of calls model(x)              *)
(***************************************************************************)
BuildWidths == {4, 5}
BuildInputs == {Single("I"), Single("r0"), Listed(<<"r0", "r1">>), Listed(<<"r0">>)}
BuildOutputs == {"I", "r0", "r1", "O"}
BuildSteps ==
    {ArchStep(rin, nn, rout, TRUE) :
        rin \in BuildInputs, nn \in BuildWidths, rout \in BuildOutputs}

\* the arguments of the calls
EvalInputs ==
    {List(<<Int2Num(1), Int2Num(2), Int2Num(1), Int2Num(2)>>),
     List(<<Int2Num(2), Int2Num(1), Int2Num(2), Int2Num(1)>>)}

BuildInit ==
    /\ nin = 4
    /\ registers = <<"r0", "r1">>
    /\ \E len \in 0..MaxArchLen : architecture \in [1..len -> BuildSteps]
    /\ pc = "init"
    /\ err = NoError
    /\ heap = <<>>
    /\ local_registers = Idle
    /\ register_sizes = <<>>
    /\ self_layers = <<>>
    /\ constructed = 0
    /\ vals = <<>>
    /\ x = None
    /\ i = 0
    /\ result = None
    /\ neuron = Idle
    /\ written = <<>>
    /\ module = Idle
    /\ lastOp = Idle

\* __init__ up to the end of the register_sizes loop
BuildRegisterSizes ==
    /\ pc = "init"
    /\ heap' = [ref \in {"self"} |-> ArchitecturalModel_registers(registers)]
    /\ LET r == ArchitecturalModel_register_sizes(nin, architecture)
       IN /\ register_sizes' = r.sizes
          /\ err' = r.err
          /\ pc' = IF r.ok THEN "sized" ELSE "raised"
    /\ lastOp' = "register_sizes"
    /\ UNCHANGED <<vals, x, i, result, neuron, self_layers, local_registers, written,
                   nin, registers, architecture, constructed, module>>

\* the rest of __init__: self.layers = [] and its loop
BuildLayers ==
    /\ pc = "sized"
    /\ LET r == ArchitecturalModel_layers(register_sizes, architecture, 1, <<>>, 0)
       IN /\ self_layers' = r.layers
          /\ constructed' = r.constructed
          /\ err' = r.err
          /\ pc' = IF r.ok THEN "built" ELSE "raised"
    /\ lastOp' = "layers"
    /\ UNCHANGED <<vals, x, i, result, neuron, heap, local_registers, written, nin,
                   registers, architecture, register_sizes, module>>

\* the program has got as far as calling the model
EvaluationReached == lastOp \in {"call", "call_again"}

\* __init__ has returned and no call is running: the model can be called
Callable == pc = "built" \/ (pc \in {"returned", "raised"} /\ EvaluationReached)

\* model(x): registers = copy.copy(self.registers); registers["I"] = x
EvalCall ==
    /\ Callable
    /\ \E xv \in EvalInputs :
          /\ x' = xv
          /\ LET c == copy_copy(heap, "self")
             IN /\ local_registers' = c.ref
                /\ heap' = [c.heap EXCEPT ![c.ref] = DictSet(@, "I", xv)]
    /\ pc' = "loop"
    /\ result' = None
    /\ err' = NoError
    /\ written' = <<>>
    /\ lastOp' = IF pc = "built" THEN "call" ELSE "call_again"
    /\ UNCHANGED <<vals, i, neuron, self_layers, nin, registers, architecture,
                   register_sizes, constructed, module>>

\* the dicts still referenced once the local `registers` is gone
DropLocal(h) == [ref \in {"self"} |-> h[ref]]

\* the loop over self.layers and `return registers["O"]`
EvalRun ==
    /\ pc = "loop"
    /\ LET r == ArchitecturalModel_loop(heap[local_registers], self_layers, 1, <<>>, vals)
       IN /\ written' = r.written
          /\ pc' = IF r.ok THEN "returned" ELSE "raised"
          /\ err' = Exception(r.err)
          /\ result' = IF r.ok THEN ArchitecturalModel_return(r.regs) ELSE None
          /\ heap' = DropLocal([heap EXCEPT ![local_registers] = r.regs])
    /\ local_registers' = Idle
    /\ UNCHANGED <<vals, x, i, neuron, self_layers, nin, registers, architecture,
                   register_sizes, constructed, module, lastOp>>

ArchNext == BuildRegisterSizes \/ BuildLayers \/ EvalCall \/ EvalRun

SpecArch == BuildInit /\ [][ArchNext]_vars

\* the width the architecture declares for register r: nin for "I", else the
\* width of the first step that names r as its output
DeclaredWidth(r) ==
    IF r = "I" THEN nin
    ELSE architecture[CHOOSE k \in DOMAIN architecture :
            /\ architecture[k].rout = r
            /\ \A j \in 1..(k - 1) : architecture[j].rout # r].nn

WidthKnown(r) == r = "I" \/ \E k \in DOMAIN architecture : architecture[k].rout = r

\* two steps name the same output register with different widths
OutputWidthConflict ==
    \E j, k \in DOMAIN architecture :
        /\ j < k
        /\ architecture[j].rout = architecture[k].rout
        /\ architecture[j].nn # architecture[k].nn

\* a step writes "I" with a width other than nin
InputWidthConflict ==
    \E k \in DOMAIN architecture :
        architecture[k].rout = "I" /\ architecture[k].nn # nin

WellFormedArchitecture ==
    /\ architecture # <<>>
    /\ \A k \in DOMAIN architecture :
          LET rin == architecture[k].rin
          IN /\ Len(rin.names) = (IF rin.isList THEN 2 ELSE 1)
             /\ \A r \in Range(rin.names) : WidthKnown(r)
    /\ ~OutputWidthConflict
    /\ ~InputWidthConflict

ExpectedInputWidth(rin) ==
    IF rin.isList THEN DeclaredWidth(rin.names[1]) + DeclaredWidth(rin.names[2])
    ELSE DeclaredWidth(rin.names[1])

\* C1: construction from a well-formed, non-empty architecture succeeds and
\* stores one step (input_spec, layer, output_register) per architecture
\* step, in order, the layer having the declared output width and the input
\* width of its input register(s)
C1_BuildStoresOneStepPerArchitectureStep ==
    (pc \in {"built", "raised"} /\ WellFormedArchitecture) =>
        /\ pc = "built"
        /\ Len(self_layers) = Len(architecture)
        /\ \A k \in DOMAIN architecture :
              /\ self_layers[k].rin = architecture[k].rin
              /\ self_layers[k].rout = architecture[k].rout
              /\ Len(self_layers[k].layer.neurons) = architecture[k].nn
              /\ LayerNin(self_layers[k].layer) = ExpectedInputWidth(architecture[k].rin)

\* the exception is the width-mismatch error of some step k: it names the
\* step's output register, the step's width and the width declared before
IsMismatchErrorOfStep(k) ==
    /\ err.type = "ValueError: register input mismatch"
    /\ err.register = architecture[k].rout
    /\ err.got = architecture[k].nn
    /\ err.expected = DeclaredWidth(architecture[k].rout)
    /\ err.got # err.expected

\* C2, first half: two steps that give one output register different widths
\* make construction fail with the mismatch error, before any layer exists
C2_ConflictRaisesBeforeLayers ==
    (pc # "init" /\ OutputWidthConflict) =>
        /\ pc = "raised"
        /\ lastOp = "register_sizes"
        /\ \E k \in DOMAIN architecture : IsMismatchErrorOfStep(k)
        /\ constructed = 0
        /\ self_layers = <<>>

\* C2 as stated: the mismatch error on a conflict, and no error from the
\* width-inference pass when every repeated output register keeps its width
C2_WidthMismatchAsStated ==
    /\ C2_ConflictRaisesBeforeLayers
    /\ (lastOp = "register_sizes" /\ ~OutputWidthConflict) => pc = "sized"

\* C2 as amended: the width-inference pass raises no error when, besides,
\* every step that writes "I" declares the width nin
C2_WidthMismatchAmended ==
    /\ C2_ConflictRaisesBeforeLayers
    /\ (lastOp = "register_sizes" /\ ~OutputWidthConflict /\ ~InputWidthConflict)
          => pc = "sized"
    /\ (lastOp = "register_sizes" /\ ~OutputWidthConflict /\ InputWidthConflict)
          => (pc = "raised" /\ err.register = "I" /\ err.expected = nin)

\* ("I",4,"r0",{}) followed later by ("I",5,"r0",{}) has raised the error
\* naming r0, 5 and 4
C2_Witness ==
    /\ pc = "raised"
    /\ Len(architecture) >= 2
    /\ architecture[1] = ArchStep(Single("I"), 4, "r0", TRUE)
    /\ architecture[Len(architecture)] = ArchStep(Single("I"), 5, "r0", TRUE)
    /\ err = Error("ValueError: register input mismatch", "r0", 5, 4)
    /\ constructed = 0

\* every register a step reads is "I" or the output of an earlier step
ReadsOnlyWritten ==
    \A k \in DOMAIN architecture : \A r \in Range(architecture[k].rin.names) :
        r = "I" \/ \E j \in 1..(k - 1) : architecture[j].rout = r

\* some step reads a register no earlier step has written
ReadsUnset == ~ReadsOnlyWritten

\* the first step that reads a register no earlier step has written
FirstUnsetRead ==
    CHOOSE k \in DOMAIN architecture :
        /\ \E r \in Range(architecture[k].rin.names) :
              r # "I" /\ \A j \in 1..(k - 1) : architecture[j].rout # r
        /\ \A m \in 1..(k - 1) : \A r \in Range(architecture[m].rin.names) :
              r = "I" \/ \E j \in 1..(m - 1) : architecture[j].rout = r

\* the value the last step with output register "O" wrote
LastWrittenToO ==
    written[CHOOSE k \in DOMAIN written :
        /\ written[k].rout = "O"
        /\ \A j \in DOMAIN written : written[j].rout = "O" => j <= k].val

\* C3: for an architecture whose steps read only registers written before
\* them and one of which writes "O", the model once constructed and called
\* runs one step per architecture step in architecture order and returns
\* the value the last step with output "O" wrote
C3_StepsRunInOrder ==
    (/\ pc \in {"returned", "raised"}
     /\ WellFormedArchitecture
     /\ ReadsOnlyWritten
     /\ \E k \in DOMAIN architecture : architecture[k].rout = "O") =>
        /\ EvaluationReached
        /\ pc = "returned"
        /\ Len(written) = Len(architecture)
        /\ \A k \in DOMAIN architecture : written[k].rout = architecture[k].rout
        /\ result = LastWrittenToO

\* C4: an evaluation of a model none of whose steps writes "O" raises; it
\* never returns the unset value
C4_UnwrittenOutputRaises ==
    (/\ EvaluationReached
     /\ pc \in {"returned", "raised"}
     /\ \A k \in DOMAIN self_layers : self_layers[k].rout # "O") =>
        (pc = "raised" /\ result = None)

\* C5: for an architecture with a step that reads a register no earlier
\* step has written, the evaluation of the constructed model fails with an
\* error at that step, none of the later steps having run
C5_UnsetReadRaises ==
    (/\ pc \in {"returned", "raised"}
     /\ WellFormedArchitecture
     /\ ReadsUnset) =>
        /\ EvaluationReached
        /\ pc = "raised"
        /\ Len(written) < FirstUnsetRead

\* the mapping an evaluation on input xv starts from: every declared
\* register unset, "I" holding xv
FreshRegisters(xv) == DictSet(ArchitecturalModel_registers(registers), "I", xv)

\* what the stored steps yield on xv from fresh registers
FreshForward(xv) == ArchitecturalModel_loop(FreshRegisters(xv), self_layers, 1, <<>>, vals)

\* C9: the stored register mapping stays as the constructor left it, every
\* register unset, through any number of evaluations; each evaluation
\* starts from a mapping in which only "I" is set, and what it returns is
\* what the stored steps yield on its own input from fresh registers
C9_StoredRegistersStayUnset ==
    /\ "self" \in DOMAIN heap =>
          heap["self"] = ArchitecturalModel_registers(registers)
    /\ pc = "loop" => heap[local_registers] = FreshRegisters(x)
    /\ (EvaluationReached /\ pc = "returned") =>
          /\ FreshForward(x).ok
          /\ result = ArchitecturalModel_return(FreshForward(x).regs)
    /\ (EvaluationReached /\ pc = "raised") => ~FreshForward(x).ok

\* a later evaluation of the model has returned and the stored registers
\* are all unset
C9_Witness ==
    /\ lastOp = "call_again"
    /\ pc = "returned"
    /\ x = List(<<Int2Num(2), Int2Num(1), Int2Num(2), Int2Num(1)>>)
    /\ \A r \in DOMAIN heap["self"] : heap["self"][r] = None

(***************************************************************************)
(* Module.zero_grad and parameters()                                       *)
(***************************************************************************)
\* self.parameters() of each class
Module_parameters(m) ==
    CASE m.kind = "Neuron" -> Neuron_parameters(m.obj)
      [] m.kind = "Layer" -> Layer_parameters(m.obj)
      [] m.kind = "MLP" -> MLP_parameters(m.obj)
      [] m.kind = "ArchitecturalModel" -> ArchitecturalModel_parameters(m.obj)

\* `for p in params: p.grad = 0` from position k on
RECURSIVE zero_grad_loop(_, _, _)
zero_grad_loop(vs, params, k) ==
    IF k > Len(params) THEN vs
    ELSE zero_grad_loop([vs EXCEPT ![params[k]].grad = 0], params, k + 1)

\* the loop stopping one parameter early
Mutant_zero_grad_short(vs, m) ==
    zero_grad_loop(vs, SubSeq(Module_parameters(m), 1, Len(Module_parameters(m)) - 1), 1)

\* Module.zero_grad
Module_zero_grad(vs, m) == zero_grad_loop(vs, Module_parameters(m), 1)

\* backward(): a gradient contribution g summed into the grad of Value id
Value_accumulate(vs, id, g) == [vs EXCEPT ![id].grad = @ + g]

(***************************************************************************)
(* SpecGrad: a module whose parameters collect gradients and are reset     *)
(***************************************************************************)
\* Neuron(2), Layer(1, 2), MLP(1, [1, 1]) and the ArchitecturalModel the
\* constructor returns, the one of the empty architecture, whose
\* self.layers is empty
GradModules ==
    {[kind |-> "Neuron", obj |-> Neuron_init(0, 2, TRUE)],
     [kind |-> "Layer", obj |-> Layer_init(0, 1, 2, TRUE)],
     [kind |-> "MLP", obj |-> MLP_init(1, <<1, 1>>)],
     [kind |-> "ArchitecturalModel", obj |-> <<>>]}

\* the neurons a module holds
ModuleNeurons(m) ==
    CASE m.kind = "Neuron" -> {m.obj}
      [] m.kind = "Layer" -> Range(m.obj.neurons)
      [] m.kind = "MLP" -> NeuronsOfLayers(m.obj)
      [] m.kind = "ArchitecturalModel" ->
            NeuronsOfLayers([k \in DOMAIN m.obj |-> m.obj[k].layer])

GradInit ==
    /\ module \in GradModules
    /\ vals \in NeuronVals(ModuleNeurons(module))
    /\ lastOp = "init"
    /\ i = 0
    /\ pc = Idle
    /\ err = NoError
    /\ x = None
    /\ result = None
    /\ neuron = Idle
    /\ self_layers = <<>>
    /\ heap = <<>>
    /\ local_registers = Idle
    /\ written = <<>>
    /\ nin = 0
    /\ registers = <<>>
    /\ architecture = <<>>
    /\ register_sizes = <<>>
    /\ constructed = 0

\* a backward pass adds a contribution to one parameter's grad
GradAccumulate ==
    /\ i < MaxAccum
    /\ \E id \in DOMAIN vals, g \in {-1, 1} : vals' = Value_accumulate(vals, id, g)
    /\ i' = i + 1
    /\ lastOp' = "accumulate"
    /\ UNCHANGED <<pc, err, x, result, neuron, self_layers, heap, local_registers,
                   written, nin, registers, architecture, register_sizes,
                   constructed, module>>

\* module.zero_grad()
GradZero ==
    /\ vals' = Module_zero_grad(vals, module)
    /\ lastOp' = "zero_grad"
    /\ UNCHANGED <<pc, err, x, i, result, neuron, self_layers, heap, local_registers,
                   written, nin, registers, architecture, register_sizes,
                   constructed, module>>

GradNext == GradAccumulate \/ GradZero

SpecGrad == GradInit /\ [][GradNext]_vars

\* C8: zero_grad leaves every scalar of parameters() with grad 0 whatever it
\* was, and leaves the data values and the parameter list as they were
C8_ZeroGradResetsOnlyGrad ==
    [][ lastOp' = "zero_grad" =>
          /\ \A k \in DOMAIN Module_parameters(module') :
                vals'[Module_parameters(module')[k]].grad = 0
          /\ DOMAIN vals' = DOMAIN vals
          /\ \A id \in DOMAIN vals : vals'[id].data = vals[id].data
          /\ Module_parameters(module') = Module_parameters(module)
      ]_vars

\* zero_grad has just reset an MLP after MaxAccum gradient contributions
\* had been summed into its parameters, and a weight still holds its draw
C8_Witness ==
    /\ lastOp = "zero_grad"
    /\ i = MaxAccum
    /\ module.kind = "MLP"
    /\ \A id \in DOMAIN vals : vals[id].grad = 0
    /\ \E id \in DOMAIN vals : vals[id].data = Dyadic(-1, 1)

====
